---- MODULE Spec2Model ----
(***************************************************************************)
(* Model of the school.ai backend.                                         *)
(*                                                                         *)
(*  - the /classlink realtime relay of src/server.socket.ts (the same     *)
(*    handlers appear in src/unnamed/part_001): connections join a room   *)
(*    derived from the handshake, and the four handlers start, stop,      *)
(*    frame and status forward with ns.to(room).emit(...);                *)
(*  - the POST /api/sketch handler of src/unnamed/part_004.               *)
(*                                                                         *)
(* Strings that the code inspects character by character (the session     *)
(* identifier, which is trimmed) are sequences of one-character strings.  *)
(***************************************************************************)
EXTENDS Integers, Sequences, FiniteSets, TLC

(***************************************************************************)
(* Bounds                                                                  *)
(***************************************************************************)
\* number of connections that are ever opened on /classlink
NumConns == 3
\* number of events the clients emit in one behaviour
MaxEmit == 2

Conns == 1..NumConns

(***************************************************************************)
(* Strings                                                                 *)
(***************************************************************************)
\* the whitespace character used in handshake values
WS == " "

RECURSIVE TrimStart(_)
TrimStart(s) ==
    IF s # <<>> /\ Head(s) = WS THEN TrimStart(Tail(s)) ELSE s

RECURSIVE TrimEnd(_)
TrimEnd(s) ==
    IF s # <<>> /\ s[Len(s)] = WS THEN TrimEnd(SubSeq(s, 1, Len(s) - 1)) ELSE s

\* String.prototype.trim
Trim(s) == TrimEnd(TrimStart(s))

\* the absent / empty handshake value (both are falsy for the code's ||)
Absent == <<>>

\* a || b on strings: the first operand unless it is falsy
Or(a, b) == IF a # Absent THEN a ELSE b

(***************************************************************************)
(* Handshake                                                               *)
(***************************************************************************)
\* socket.id: the identifier the transport gives a connection; it contains
\* no whitespace and differs from one connection to the next
IdDigits == <<"1", "2", "3", "4", "5", "6", "7", "8", "9">>
SocketId(c) == <<"#", IdDigits[c]>>

abc == <<"a", "b", "c">>
abd == <<"a", "b", "d">>
desktop == <<"desktop">>
mobile == <<"mobile">>
teacher == <<"teacher">>

Hs(ar, qr, as, qs) ==
    [authRole |-> ar, queryRole |-> qr, authSid |-> as, querySid |-> qs]

\* the handshake of a connection that does not exist
NoHandshake == Hs(Absent, Absent, Absent, Absent)

\* the handshakes the clients of the model send
Handshakes ==
    { Hs(Absent, Absent, Absent, Absent),
      Hs(desktop, Absent, abc, Absent),
      Hs(Absent, mobile, Absent, abc \o <<WS>>),
      Hs(mobile, Absent, abd, Absent),
      Hs(mobile, Absent, SocketId(1), Absent) }

\* every combination of role and sid values in auth and in the query
AllHandshakes ==
    { Hs(ar, qr, as, qs) :
        ar \in {Absent, mobile, teacher},
        qr \in {Absent, desktop, mobile},
        as \in {Absent, abc, <<WS>> \o abc, <<WS>>},
        qs \in {Absent, abd, abc \o <<WS>>} }

\* the handshakes tried by the c-th client when the handshake is examined
HandshakesOf(c) == IF c = 1 THEN AllHandshakes ELSE Handshakes

RoleOfNoDefault(h) == Or(h.authRole, h.queryRole)

\* const role = String(auth.role || query.role || 'desktop')
RoleOf(h) == Or(Or(h.authRole, h.queryRole), desktop)

\* const sidRaw = auth.sid || query.sid || ''; const sid = String(sidRaw || '').trim()
SidOf(h) == Trim(Or(Or(h.authSid, h.querySid), Absent))

RoomPrefix == <<"classlink:">>

RoomOfFirstChars(s, id) ==
    IF s # Absent THEN RoomPrefix \o SubSeq(s, 1, 2) ELSE RoomPrefix \o id

\* const room = sid ? `classlink:${sid}` : `classlink:${socket.id}`
RoomOf(s, id) ==
    IF s # Absent THEN RoomPrefix \o s ELSE RoomPrefix \o id

\* every room name a handshake of the model can produce
RoomNames ==
    { RoomOf(SidOf(h), SocketId(c)) : h \in Handshakes \cup AllHandshakes, c \in Conns }

(***************************************************************************)
(* Events                                                                  *)
(***************************************************************************)
framePayload == [seq |-> 1, ts |-> 1000, data |-> "x"]
statusMsg == [state |-> "ready"]

\* the argument lists the clients send with each event: start and stop are
\* meant to carry none, frame carries a frame record, status any value
StartArgs == { <<>>, <<statusMsg>> }
StopArgs == { <<>> }
FrameArgs == { <<framePayload>> }
StatusArgs == { <<statusMsg>> }

VARIABLES
    status,     \* per connection: "unjoined", "joined" or "left"
    handshake,  \* per connection: socket.handshake, while it is connected
    role,       \* per connection: the role read from the handshake
    sid,        \* per connection: the trimmed session identifier
    room,       \* per connection: the room name computed at connection time
    rooms,      \* the transport's table: room name -> set of member connections
    delivered,  \* per connection: events the relay has sent to it, in order
    nextId,     \* number of events that have arrived so far
    last        \* the event that arrived most recently, as the handler got it,
                \* and the connections that were closed when it arrived

relayVars == <<status, handshake, role, sid, room, rooms, delivered, nextId, last>>

\* the /video namespace
VARIABLES
    vstatus,     \* per video connection: "unjoined", "joined" or "left"
    uuids,       \* the number of values uuidv4() has returned
    sessionId,   \* per video connection: its sessionId
    frameCount,  \* per video connection: its frameCount
    issued,      \* the calls of fs.writeFile, in order: file name and data
    outcome,     \* per call of fs.writeFile: pending, saved or failed
    files        \* the directory link-frames: the data of each file

videoVars == <<vstatus, uuids, sessionId, frameCount, issued, outcome, files>>

\* the state of the two namespaces
socketVars == <<relayVars, videoVars>>

\* one request to POST /api/sketch
VARIABLES
    pc,         \* where the handler is: idle, one of its awaits, or done
    apiKey,     \* TRUE when OPENAI_API_KEY or OPEN_AI_SECRET_KEY is set
    prompt,     \* req.body.prompt
    content,    \* text of the first completion
    sketch,     \* the parsed sketch
    tries,      \* genAufgabe's loop counter i
    aufgabe,    \* result of genAufgabe
    schritte,   \* result of genLoesung, possibly refined
    hint,       \* the hint of the review
    reviewOk,   \* the ok of the review
    calls,      \* the upstream calls made for the request, in order, each
                \* with whether it threw
    res         \* the responses sent for the request, in order

sketchVars ==
    <<pc, apiKey, prompt, content, sketch, tries, aufgabe, schritte, hint, reviewOk, calls, res>>

\* one request to one of the other endpoints; pc, apiKey, calls and res are
\* the ones above
VARIABLES
    ep,           \* the route of the request, "none" for /api/sketch
    req,          \* the fields of req.body or req.query
    bucket,       \* TRUE when AWS_S3_BUCKET is set
    upstream,     \* the completion stream: none, open, exhausted or failed
    received,     \* the deltas the stream has yielded, in order
    written,      \* the chunks given to res.write, in order
    headersSent,  \* res.headersSent
    ended,        \* res.end() was called
    s3,           \* the objects of the bucket under uploads/
    folderNames,  \* GET /api/folders: the names of the folders found
    idx,          \* GET /api/folders: the folders handled so far
    result,       \* GET /api/folders: the entries pushed so far
    listed,       \* /api/folders/delete: the keys array
    keys,         \* /api/folders/delete: keys.length
    pages,        \* /api/folders/delete: listing pages read
    offset,       \* /api/folders/delete: the loop variable i of the batches
    batches       \* /api/folders/delete: the slices of keys sent so far

httpVars ==
    <<ep, req, bucket, upstream, received, written, headersSent, ended, s3,
      folderNames, idx, result, listed, keys, pages, offset, batches>>

\* the state of the HTTP handlers
apiVars == <<sketchVars, httpVars>>

vars == <<relayVars, videoVars, apiVars>>

(***************************************************************************)
(* The transport's room table                                              *)
(***************************************************************************)
JoinBoth(rms, c, r) ==
    [n \in RoomNames |->
        IF n = r \/ n = RoomPrefix \o SocketId(c) THEN rms[n] \cup {c} ELSE rms[n]]

\* socket.join(room)
Join(rms, c, r) ==
    [n \in RoomNames |-> IF n = r THEN rms[n] \cup {c} ELSE rms[n]]

LeaveNothing(rms, c) == rms

\* on disconnect the transport removes the socket from every room it is in
Leave(rms, c) == [n \in RoomNames |-> rms[n] \ {c}]

ToEveryone(rms, r) == UNION { rms[n] : n \in RoomNames }

\* ns.to(room): the sockets of the namespace that are in the room
To(rms, r) == rms[r]

\* the rooms a connection is a member of
RoomsOf(c) == { n \in RoomNames : c \in rooms[n] }

(***************************************************************************)
(* Forwarding                                                              *)
(***************************************************************************)
ArgsDropped(ev, args) == <<>>

\* the argument list a handler passes to emit: none for start and stop,
\* the received payload for frame and status
ForwardedArgs(ev, args) ==
    IF ev \in {"start", "stop"} THEN <<>> ELSE <<args[1]>>

SendFirst(log, m) == <<m>> \o log

\* writing one packet to a connection's transport, which keeps the order
Send(log, m) == Append(log, m)

\* ns.to(room).emit(ev, ...args): one packet to every socket in the room
Emit(dl, members, m) ==
    [r \in Conns |-> IF r \in members THEN Send(dl[r], m) ELSE dl[r]]

\* the value of last before any event has arrived
NoEvent ==
    [id |-> 0, from |-> 0, ev |-> "", args |-> <<>>, room |-> Absent, gone |-> {}]

\* socket.on(ev, handler): the handler runs when the event ev of connection c
\* arrives with the argument list args, and forwards it to the room
Handle(c, ev, args) ==
    /\ status[c] = "joined"
    /\ nextId < MaxEmit
    /\ nextId' = nextId + 1
    /\ last' = [id |-> nextId + 1, from |-> c, ev |-> ev, args |-> args,
                room |-> room[c],
                gone |-> { d \in Conns : status[d] = "left" }]
    /\ delivered' = Emit(delivered, To(rooms, room[c]),
                         [id |-> nextId + 1, from |-> c, ev |-> ev,
                          args |-> ForwardedArgs(ev, args)])
    /\ UNCHANGED <<status, handshake, role, sid, room, rooms, apiVars, videoVars>>

(***************************************************************************)
(* Relay actions                                                           *)
(***************************************************************************)
RelayInit ==
    /\ status = [c \in Conns |-> "unjoined"]
    /\ handshake = [c \in Conns |-> NoHandshake]
    /\ role = [c \in Conns |-> Absent]
    /\ sid = [c \in Conns |-> Absent]
    /\ room = [c \in Conns |-> Absent]
    /\ rooms = [n \in RoomNames |-> {}]
    /\ delivered = [c \in Conns |-> <<>>]
    /\ nextId = 0
    /\ last = NoEvent

\* ns.on('connection', ...): connection c is the c-th to arrive
Connect(c, h) ==
    /\ status[c] = "unjoined"
    /\ \A b \in Conns : b < c => status[b] # "unjoined"
    /\ status' = [status EXCEPT ![c] = "joined"]
    /\ handshake' = [handshake EXCEPT ![c] = h]
    /\ role' = [role EXCEPT ![c] = RoleOf(h)]
    /\ sid' = [sid EXCEPT ![c] = SidOf(h)]
    /\ room' = [room EXCEPT ![c] = RoomOf(SidOf(h), SocketId(c))]
    /\ rooms' = Join(rooms, c, RoomOf(SidOf(h), SocketId(c)))
    /\ UNCHANGED <<delivered, nextId, last, apiVars, videoVars>>

\* socket.on('start', () => ns.to(room).emit('start'))
OnStart(c, args) == Handle(c, "start", args)

\* socket.on('stop', () => ns.to(room).emit('stop'))
OnStop(c, args) == Handle(c, "stop", args)

\* socket.on('frame', (payload) => ns.to(room).emit('frame', payload))
OnFrame(c, args) == Handle(c, "frame", args)

\* socket.on('status', (msg) => ns.to(room).emit('status', msg))
OnStatus(c, args) == Handle(c, "status", args)

\* socket.on('disconnect', ...): the connection is closed and the transport
\* has removed it from its rooms; no event of the connection arrives later
Disconnect(c) ==
    /\ status[c] = "joined"
    /\ status' = [status EXCEPT ![c] = "left"]
    /\ handshake' = [handshake EXCEPT ![c] = NoHandshake]
    /\ rooms' = Leave(rooms, c)
    /\ role' = [role EXCEPT ![c] = Absent]
    /\ sid' = [sid EXCEPT ![c] = Absent]
    /\ room' = [room EXCEPT ![c] = Absent]
    /\ delivered' = [delivered EXCEPT ![c] = <<>>]
    /\ UNCHANGED <<nextId, last, apiVars, videoVars>>

RelayNext ==
    \/ \E c \in Conns, h \in Handshakes : Connect(c, h)
    \/ \E c \in Conns, args \in StartArgs : OnStart(c, args)
    \/ \E c \in Conns, args \in StopArgs : OnStop(c, args)
    \/ \E c \in Conns, args \in FrameArgs : OnFrame(c, args)
    \/ \E c \in Conns, args \in StatusArgs : OnStatus(c, args)
    \/ \E c \in Conns : Disconnect(c)

(***************************************************************************)
(* JavaScript values, as far as POST /api/sketch looks at them             *)
(***************************************************************************)
Undefined == [t |-> "undefined"]
Null == [t |-> "null"]
Bool(b) == [t |-> "boolean", b |-> b]
Num(n) == [t |-> "number", n |-> n]
\* a string value; its characters are a sequence of one-character strings
Str(chars) == [t |-> "string", s |-> chars]
Arr(items) == [t |-> "array", items |-> items]
\* an object; fields is a function from its keys to their values
Obj(fields) == [t |-> "object", fields |-> fields]

\* v?.k
Get(v, k) ==
    IF v.t = "object" /\ k \in DOMAIN v.fields THEN v.fields[k] ELSE Undefined

\* the truth value of v in a condition
Truthy(v) ==
    CASE v.t \in {"undefined", "null"} -> FALSE
      [] v.t = "boolean" -> v.b
      [] v.t = "number" -> v.n # 0
      [] v.t = "string" -> v.s # <<>>
      [] OTHER -> TRUE

\* Array.isArray(v)
IsArray(v) == v.t = "array"

RECURSIVE Repeat(_, _)
Repeat(ch, n) == IF n = 0 THEN <<>> ELSE <<ch>> \o Repeat(ch, n - 1)

\* s.length > 60 in genAufgabe
MinAufgabeLen == 60
MaxTriesThree == 2 + 1

\* for (let i=0;i<2;i++) in genAufgabe
MaxTries == 2

\* arr.slice(0, 9) in genLoesung
MaxSchritte == 9

Schritt1 == <<"S", "c", "h", "r", "i", "t", "t", " ", "1">>
Tipps == <<"T", "i", "p", "p", "s">>
Klausurbeispiel ==
    <<"K", "l", "a", "u", "s", "u", "r", "b", "e", "i", "s", "p", "i", "e", "l">>
Beispiel == <<"B", "e", "i", "s", "p", "i", "e", "l">>
langeAufgabe == Repeat("x", MinAufgabeLen + 1)
knappeAufgabe == Repeat("x", MinAufgabeLen)
defaultAufgabe == <<"A", "u", "f", "g", "a", "b", "e", ":", " ", "D", "u">>

Layer(name) == Obj([name |-> Str(name), strokes |-> Arr(<<>>)])

(***************************************************************************)
(* Upstream texts and JSON.parse                                           *)
(***************************************************************************)
\* the texts the first completion returns in the model
SketchTexts ==
    { "",
      "Hier ist die Skizze",
      "{\"layers\":[{\"name\":\"Schritt 1\"}",
      "null",
      "{}",
      "{\"steps\":[\"Schritt 1\"]}",
      "{\"layers\":[{\"name\":\"Schritt 1\"},{\"name\":\"Tipps\"}]}",
      "{\"layers\":[{\"name\":\"Schritt 1\"},{\"name\":\"Klausurbeispiel\"}]}",
      "{\"layers\":[{\"name\":\"Beispiel\"}]}",
      "{\"strokes\":[]}",
      "{\"layers\":\"keine\"}" }

\* the texts the calls of chatJSON return in the model
ChatTexts ==
    { "Gerne!",
      "{\"aufgabe\":\"x...x (61)\"}",
      "{\"aufgabe\":\"x...x (60)\"}",
      "{\"schritte\":[\"K0 = 1000\",\"Z = K0*i*t\"]}",
      "{\"schritte\":[\"Z = 50 Euro\"]}",
      "{\"schritte\":[]}",
      "{\"ok\":true}",
      "{\"ok\":false}",
      "{\"ok\":false,\"hint\":\"Einheit fehlt\"}",
      "{\"ok\":true,\"hint\":\"Einheit fehlt\"}" }

\* the texts that are JSON, with the value each denotes
JSONValue ==
    [ null |-> Null ] @@
    ( "{}" :> Obj(<<>>) ) @@
    ( "{\"steps\":[\"Schritt 1\"]}" :> Obj([steps |-> Arr(<<Str(Schritt1)>>)]) ) @@
    ( "{\"layers\":[{\"name\":\"Schritt 1\"},{\"name\":\"Tipps\"}]}" :>
        Obj([layers |-> Arr(<<Layer(Schritt1), Layer(Tipps)>>)]) ) @@
    ( "{\"layers\":[{\"name\":\"Schritt 1\"},{\"name\":\"Klausurbeispiel\"}]}" :>
        Obj([layers |-> Arr(<<Layer(Schritt1), Layer(Klausurbeispiel)>>)]) ) @@
    ( "{\"layers\":[{\"name\":\"Beispiel\"}]}" :>
        Obj([layers |-> Arr(<<Layer(Beispiel)>>)]) ) @@
    ( "{\"strokes\":[]}" :> Obj([strokes |-> Arr(<<>>)]) ) @@
    ( "{\"layers\":\"keine\"}" :> Obj([layers |-> Str(<<"k", "e", "i", "n", "e">>)]) ) @@
    ( "{\"schritte\":[\"Z = 50 Euro\"]}" :>
        Obj([schritte |-> Arr(<<Str(<<"Z = 50 Euro">>)>>)]) ) @@
    ( "{\"schritte\":[]}" :> Obj([schritte |-> Arr(<<>>)]) ) @@
    ( "{\"ok\":false}" :> Obj([ok |-> Bool(FALSE)]) ) @@
    ( "{\"aufgabe\":\"x...x (61)\"}" :> Obj([aufgabe |-> Str(langeAufgabe)]) ) @@
    ( "{\"aufgabe\":\"x...x (60)\"}" :> Obj([aufgabe |-> Str(knappeAufgabe)]) ) @@
    ( "{\"schritte\":[\"K0 = 1000\",\"Z = K0*i*t\"]}" :>
        Obj([schritte |-> Arr(<<Str(<<"K0 = 1000">>), Str(<<"Z = K0*i*t">>)>>)]) ) @@
    ( "{\"ok\":true}" :> Obj([ok |-> Bool(TRUE)]) ) @@
    ( "{\"ok\":false,\"hint\":\"Einheit fehlt\"}" :>
        Obj([ok |-> Bool(FALSE), hint |-> Str(<<"Einheit fehlt">>)]) ) @@
    ( "{\"ok\":true,\"hint\":\"Einheit fehlt\"}" :>
        Obj([ok |-> Bool(TRUE), hint |-> Str(<<"Einheit fehlt">>)]) )

\* JSON.parse(text) returns a value; otherwise it throws
Parses(text) == text \in DOMAIN JSONValue

\* JSON.parse(text), for a text that parses
JSONParse(text) == JSONValue[text]

(***************************************************************************)
(* POST /api/sketch                                                        *)
(***************************************************************************)
\* the values of req.body.prompt in the model
Prompts == { Undefined, Str(<<>>), Num(5), Str(<<"Z", "i", "n", "s">>) }

\* the check  !prompt || typeof prompt !== 'string'  does not reject p
PromptOK(p) == Truthy(p) /\ p.t = "string"

\* what an upstream call does: it throws, or it returns a text
Threw == [threw |-> TRUE, text |-> ""]
Returned(text) == [threw |-> FALSE, text |-> text]
SketchOutcomes == {Threw} \cup { Returned(t) : t \in SketchTexts }
ChatOutcomes == {Threw} \cup { Returned(t) : t \in ChatTexts }

\* String(v) for the values that occur
StringOf(v) ==
    IF v.t = "string" THEN v.s
    ELSE IF v.t = "number" THEN <<ToString(v.n)>>
    ELSE <<v.t>>

\* the letters of /klausur|beispiel/i that have an upper case
LowerCase ==
    [K |-> "k", L |-> "l", A |-> "a", U |-> "u", S |-> "s", R |-> "r",
     B |-> "b", E |-> "e", I |-> "i", P |-> "p"]

Lower(chars) ==
    [i \in DOMAIN chars |->
        IF chars[i] \in DOMAIN LowerCase THEN LowerCase[chars[i]] ELSE chars[i]]

Contains(chars, pat) ==
    \E i \in 1..(Len(chars) - Len(pat) + 1) :
        SubSeq(chars, i, i + Len(pat) - 1) = pat

\* /klausur|beispiel/i.test(name)
ExamRegex(name) ==
    \/ Contains(Lower(name), <<"k", "l", "a", "u", "s", "u", "r">>)
    \/ Contains(Lower(name), <<"b", "e", "i", "s", "p", "i", "e", "l">>)

\* const hasExamLayer = Array.isArray(sketch?.layers) && sketch.layers.some(...)
hasExamLayer(sk) ==
    /\ IsArray(Get(sk, "layers"))
    /\ \E i \in DOMAIN Get(sk, "layers").items :
          LET name == Get(Get(sk, "layers").items[i], "name")
          IN ExamRegex(IF Truthy(name) THEN StringOf(name) ELSE <<>>)

ShapeAny(sk) == TRUE

\* the check  !sketch?.layers && !sketch?.strokes  does not reject sk
ShapeOK(sk) == Truthy(Get(sk, "layers")) \/ Truthy(Get(sk, "strokes"))

\* the result of chatJSON for a returned text
chatJSON(text) ==
    IF Parses(text) THEN JSONParse(text) ELSE Obj([raw |-> Str(<<text>>)])

RECURSIVE JoinLines(_)
JoinLines(items) ==
    IF items = <<>> THEN <<>>
    ELSE IF Len(items) = 1 THEN items[1]
    ELSE items[1] \o <<"\n">> \o JoinLines(Tail(items))

\* items.map((x) => String(x)).filter(Boolean)
RECURSIVE Strings(_)
Strings(items) ==
    IF items = <<>> THEN <<>>
    ELSE IF StringOf(items[1]) = <<>> THEN Strings(Tail(items))
    ELSE <<StringOf(items[1])>> \o Strings(Tail(items))

buildExamLayer(a, loesung) ==
    Obj([name |-> Str(Klausurbeispiel),
         strokes |-> Arr(<<Str(<<"Aufgabe: ">> \o a),
                           Str(<<"Lösung:\n">> \o JoinLines(loesung))>>)])

\* obj with obj[k] = v
SetField(obj, k, v) ==
    Obj([key \in DOMAIN obj.fields \cup {k} |->
            IF key = k THEN v ELSE obj.fields[key]])

WithExamLayerOnly(sk, layer) == SetField(sk, "layers", Arr(<<layer>>))

\* sketch.layers = Array.isArray(sketch.layers) ? [...sketch.layers, layer] : [layer]
WithExamLayer(sk, layer) ==
    SetField(sk, "layers",
             IF IsArray(Get(sk, "layers"))
             THEN Arr(Append(Get(sk, "layers").items, layer))
             ELSE Arr(<<layer>>))

\* res.status(400).json({ error: 'prompt required' })
PromptRequired == [status |-> 400, body |-> [error |-> "prompt required"]]

FailureAs200(msg) == [status |-> 200, body |-> [error |-> msg]]

\* the outer catch: res.status(500).json({ error: msg })
Failure(msg) == [status |-> 500, body |-> [error |-> msg]]

MissingKey == "OPENAI_API_KEY oder OPEN_AI_SECRET_KEY fehlt in .env"
RequestFailed == "OpenAI request failed"

ParseFailureAs200(text) ==
    [status |-> 200,
     body |-> [error |-> "Sketch JSON konnte nicht geparst werden", raw |-> text]]

\* res.status(500).json({ error: 'Sketch JSON konnte nicht geparst werden', raw: content })
ParseFailure(text) ==
    [status |-> 500,
     body |-> [error |-> "Sketch JSON konnte nicht geparst werden", raw |-> text]]

\* res.status(500).json({ error: 'Ungültiges Sketch-Format', raw: content })
InvalidFormat(text) ==
    [status |-> 500,
     body |-> [error |-> "Ungültiges Sketch-Format", raw |-> text]]

\* res.json({ sketch })
Success(sk) == [status |-> 200, body |-> [sketch |-> sk]]

\* the handler sends r and returns
Respond(r) ==
    /\ res' = Append(res, r)
    /\ pc' = "done"

SketchInit ==
    /\ pc = "idle"
    /\ apiKey = FALSE
    /\ prompt = Undefined
    /\ content = ""
    /\ sketch = Undefined
    /\ tries = 0
    /\ aufgabe = <<>>
    /\ schritte = <<>>
    /\ hint = Undefined
    /\ reviewOk = FALSE
    /\ calls = <<>>
    /\ res = <<>>

\* a request arrives: validation, then getOpenAIClient()
SketchRequest(p, key) ==
    /\ pc = "idle"
    /\ prompt' = p
    /\ apiKey' = key
    /\ IF ~PromptOK(p) THEN Respond(PromptRequired)
       ELSE IF ~key THEN Respond(Failure(MissingKey))
       ELSE pc' = "completion" /\ UNCHANGED res
    /\ UNCHANGED <<content, sketch, tries, aufgabe, schritte, hint, reviewOk, calls, socketVars, httpVars>>

\* await openai.chat.completions.create(...) for the sketch, then the parse,
\* the shape check and the test for an exam layer
Completion(out) ==
    /\ pc = "completion"
    /\ calls' = Append(calls, [call |-> "sketch", threw |-> out.threw])
    /\ IF out.threw
       THEN Respond(Failure(RequestFailed)) /\ UNCHANGED <<content, sketch>>
       ELSE /\ content' = out.text
            /\ IF ~Parses(out.text)
               THEN Respond(ParseFailure(out.text)) /\ UNCHANGED sketch
               ELSE /\ sketch' = JSONParse(out.text)
                    /\ IF ~ShapeOK(sketch') THEN Respond(InvalidFormat(out.text))
                       ELSE IF hasExamLayer(sketch') THEN Respond(Success(sketch'))
                       ELSE pc' = "aufgabe" /\ UNCHANGED res
    /\ UNCHANGED <<apiKey, prompt, tries, aufgabe, schritte, hint, reviewOk, socketVars, httpVars>>

\* the inner catch {} of the fallback, followed by res.json({ sketch })
FallbackFailed ==
    /\ Respond(Success(sketch))
    /\ UNCHANGED <<sketch, tries, aufgabe, schritte, hint, reviewOk>>

\* the end of the fallback: the layer is built and appended, then res.json
FallbackDone(a, loesung) ==
    /\ sketch' = WithExamLayer(sketch, buildExamLayer(a, loesung))
    /\ Respond(Success(sketch'))

\* one iteration of the loop of genAufgabe
GenAufgabe(out) ==
    /\ pc = "aufgabe"
    /\ calls' = Append(calls, [call |-> "aufgabe", threw |-> out.threw])
    /\ IF out.threw THEN FallbackFailed
       ELSE /\ UNCHANGED <<sketch, schritte, hint, reviewOk>>
            /\ LET j == chatJSON(out.text)
                   a == Get(j, "aufgabe")
                   s == Trim(IF Truthy(a) THEN StringOf(a) ELSE <<>>)
               IN IF Len(s) > MinAufgabeLen
                  THEN /\ aufgabe' = s
                       /\ pc' = "loesung"
                       /\ UNCHANGED <<tries, res>>
                  ELSE IF tries + 1 < MaxTries
                  THEN /\ tries' = tries + 1
                       /\ UNCHANGED <<pc, aufgabe, res>>
                  ELSE /\ tries' = tries + 1
                       /\ aufgabe' = defaultAufgabe
                       /\ pc' = "loesung"
                       /\ UNCHANGED res
    /\ UNCHANGED <<apiKey, prompt, content, socketVars, httpVars>>

\* genLoesung
GenLoesung(out) ==
    /\ pc = "loesung"
    /\ calls' = Append(calls, [call |-> "loesung", threw |-> out.threw])
    /\ IF out.threw THEN FallbackFailed
       ELSE LET j == chatJSON(out.text)
                arr == IF IsArray(Get(j, "schritte"))
                       THEN Strings(Get(j, "schritte").items) ELSE <<>>
            IN /\ schritte' = SubSeq(arr, 1, IF Len(arr) < MaxSchritte THEN Len(arr) ELSE MaxSchritte)
               /\ pc' = "review"
               /\ UNCHANGED <<sketch, tries, aufgabe, hint, reviewOk, res>>
    /\ UNCHANGED <<apiKey, prompt, content, socketVars, httpVars>>

\* review, and the decision to refine
Review(out) ==
    /\ pc = "review"
    /\ calls' = Append(calls, [call |-> "review", threw |-> out.threw])
    /\ IF out.threw THEN FallbackFailed
       ELSE /\ UNCHANGED <<tries, aufgabe, schritte>>
            /\ LET j == chatJSON(out.text)
                   ok == Truthy(Get(j, "ok"))
                   h == IF Truthy(Get(j, "hint"))
                        THEN Str(StringOf(Get(j, "hint"))) ELSE Undefined
               IN /\ hint' = h
                  /\ reviewOk' = ok
                  /\ IF ~ok /\ Truthy(h)
                     THEN pc' = "fix" /\ UNCHANGED <<sketch, res>>
                     ELSE FallbackDone(aufgabe, schritte)
    /\ UNCHANGED <<apiKey, prompt, content, socketVars, httpVars>>

\* the refinement: chatJSON(sysFix, ...)
Fix(out) ==
    /\ pc = "fix"
    /\ calls' = Append(calls, [call |-> "fix", threw |-> out.threw])
    /\ IF out.threw THEN FallbackFailed
       ELSE LET fixed == chatJSON(out.text)
                f == Get(fixed, "schritte")
                better == IF IsArray(f) /\ f.items # <<>>
                          THEN [i \in DOMAIN f.items |-> StringOf(f.items[i])]
                          ELSE schritte
            IN /\ schritte' = better
               /\ FallbackDone(aufgabe, better)
               /\ UNCHANGED <<tries, aufgabe, hint, reviewOk>>
    /\ UNCHANGED <<apiKey, prompt, content, socketVars, httpVars>>

SketchNext ==
    \/ \E p \in Prompts, key \in BOOLEAN : SketchRequest(p, key)
    \/ \E out \in SketchOutcomes : Completion(out)
    \/ \E out \in ChatOutcomes : GenAufgabe(out)
    \/ \E out \in ChatOutcomes : GenLoesung(out)
    \/ \E out \in ChatOutcomes : Review(out)
    \/ \E out \in ChatOutcomes : Fix(out)

(***************************************************************************)
(* The other HTTP endpoints                                                *)
(***************************************************************************)
Chat == "POST /api/chat"
ChatStream == "POST /api/chat/stream"
PresignUpload == "POST /api/uploads/presign"
DeleteUpload == "POST /api/uploads/delete"
ViewUrl == "GET /api/uploads/view-url"
ListUploads == "GET /api/uploads"
ListFolders == "GET /api/folders"
CreateFolder == "POST /api/folders"
DeleteFolder == "POST /api/folders/delete"

Endpoints ==
    {Chat, ChatStream, PresignUpload, DeleteUpload, ViewUrl, ListUploads,
     ListFolders, CreateFolder, DeleteFolder}

\* most stream parts of a request in the model
MaxParts == 3

\* most batches that the deletion of a folder needs in the model
MaxBatches == 2

\* keys.slice(i, i+1000), and the most keys S3 lists in one page
BatchSize == 1000

\* the longest folder name of /^[-a-z0-9_]{1,64}$/
MaxFolderLen == 64

\* a request that carries none of the fields
NoFields ==
    [messages |-> Undefined, imageKey |-> Undefined, contentType |-> Undefined,
     folder |-> Undefined, key |-> Undefined, name |-> Undefined]

aKey == Str(<<"uploads/", "1", ".png">>)

\* the folder of  metaPrefix = 'uploads/_folders/'
metaFolder == <<"_", "f", "o", "l", "d", "e", "r", "s">>
Klasse1 == <<" ", "K", "l", "a", "s", "s", "e", "_", "1", " ">>
twoWords == <<"a", " ", "b">>

\* the values of the fields in the model
Messages ==
    { Undefined, Str(<<"h", "i">>), Arr(<<>>),
      Arr(<<Obj([role |-> Str(<<"user">>), content |-> Str(<<"h", "i">>)])>>) }
ImageKeys == { Undefined, Num(5), aKey }
ContentTypes == { Undefined, Str(<<>>), Str(<<"image/png">>) }
Folders == { Undefined, Num(5), Str(twoWords), Str(Klasse1) }
Keys == { Undefined, Str(<<>>), Num(5), aKey }
Names ==
    { Undefined, Str(<<>>), Num(5), Str(twoWords), Str(Klasse1), Str(metaFolder),
      Str(Repeat("a", MaxFolderLen)), Str(Repeat("a", MaxFolderLen + 1)) }

\* the requests to an endpoint in the model
Requests(e) ==
    IF e \in {Chat, ChatStream}
    THEN { [NoFields EXCEPT !.messages = m, !.imageKey = k] :
             m \in Messages, k \in ImageKeys }
    ELSE IF e = PresignUpload
    THEN { [NoFields EXCEPT !.contentType = c, !.folder = f] :
             c \in ContentTypes, f \in Folders }
    ELSE IF e \in {DeleteUpload, ViewUrl}
    THEN { [NoFields EXCEPT !.key = k] : k \in Keys }
    ELSE IF e = ListUploads
    THEN { [NoFields EXCEPT !.folder = f] : f \in Folders }
    ELSE IF e \in {CreateFolder, DeleteFolder}
    THEN { [NoFields EXCEPT !.name = n] : n \in Names }
    ELSE { NoFields }

\* the check  !Array.isArray(messages) || messages.length === 0  does not
\* reject m
MessagesOK(m) == IsArray(m) /\ Len(m.items) # 0

\* imageKey && typeof imageKey === 'string'
HasImage(k) == Truthy(k) /\ k.t = "string"

\* the check  !key || typeof key !== 'string'  does not reject k
KeyIsString(k) == Truthy(k) /\ k.t = "string"

FolderChars ==
    {"-", "_", "0", "1", "2", "3", "4", "5", "6", "7", "8", "9",
     "a", "b", "c", "d", "e", "f", "g", "h", "i", "j", "k", "l", "m",
     "n", "o", "p", "q", "r", "s", "t", "u", "v", "w", "x", "y", "z"}

\* /^[-a-z0-9_]{1,64}$/.test(chars)
FolderRegex(chars) ==
    /\ Len(chars) \in 1..MaxFolderLen
    /\ \A n \in DOMAIN chars : chars[n] \in FolderChars

\* String(name || '').trim().toLowerCase()
FolderOf(name) == Lower(Trim(IF Truthy(name) THEN StringOf(name) ELSE <<>>))

FolderAny(name) == TRUE

\* the check  !/^[-a-z0-9_]{1,64}$/.test(folder)  does not reject the name
FolderOK(name) == FolderRegex(FolderOf(name))

PresignFolderAny(f) == TRUE

\* the optional folder of a presign: rejected when it is a non-empty string
\* that does not match
PresignFolderOK(f) ==
    (Truthy(f) /\ f.t = "string") => FolderRegex(Lower(Trim(f.s)))

(***************************************************************************)
(* The bucket.  An object under uploads/<dir>/ is a metadata file, a .keep *)
(* placeholder or an uploaded file; the uploaded files of a folder are     *)
(* counted, the other objects are kept by key.                             *)
(***************************************************************************)
Least(a, b) == IF a < b THEN a ELSE b
Most(a, b) == IF a < b THEN b ELSE a
Range(f) == { f[n] : n \in DOMAIN f }

\* the folder names of the model that the regex accepts
Dirs == { FolderOf(n) : n \in { m \in Names : FolderOK(m) } }

\* the folder names in the order of their bytes, in which S3 lists keys
ByteOrder ==
    << <<"5">>, metaFolder, Repeat("a", MaxFolderLen), FolderOf(Str(Klasse1)) >>

\* the folder names in the order of localeCompare, which puts punctuation
\* before digits
LocaleOrder ==
    << metaFolder, <<"5">>, Repeat("a", MaxFolderLen), FolderOf(Str(Klasse1)) >>

\* `uploads/_folders/${folder}.json`
MetaKey(folder) == [dir |-> metaFolder, file |-> folder \o <<".json">>]

\* `uploads/${folder}/.keep`
KeepKey(folder) == [dir |-> folder, file |-> <<".keep">>]

\* (o.Key||'').endsWith('.json')
EndsWithJson(k) == k.file[Len(k.file)] = ".json"

\* String(m.Key).slice(metaPrefix.length).replace(/\.json$/,'')
NameOf(k) == SubSeq(k.file, 1, Len(k.file) - 1)

\* o.Size of a listed object: Buffer.from('') is empty, the JSON is not
SizeOf(k) == IF k.file = <<".keep">> THEN 0 ELSE 1

\* the objects that are kept by key, in the order of a listing of
\* uploads/<dir>/
KeysInOrder(dir) ==
    <<KeepKey(dir)>> \o
    (IF dir = metaFolder
     THEN [n \in DOMAIN ByteOrder |-> MetaKey(ByteOrder[n])] ELSE <<>>)

\* a bucket without objects
EmptyBucket == [objects |-> {}, uploads |-> [d \in Dirs |-> 0]]

\* Contents of ListObjectsV2 with Prefix uploads/<dir>/, all pages: the
\* objects kept by key, then the number of uploaded files
Contents(st, dir) ==
    [special |-> SelectSeq(KeysInOrder(dir), LAMBDA k : k \in st.objects),
     uploads |-> IF dir \in Dirs THEN st.uploads[dir] ELSE 0]

NoContents == [special |-> <<>>, uploads |-> 0]

\* Contents of ListObjectsV2 with Prefix uploads/
RECURSIVE ContentsFrom(_, _)
ContentsFrom(st, n) ==
    IF n > Len(ByteOrder) THEN NoContents
    ELSE LET c == Contents(st, ByteOrder[n])
             rest == ContentsFrom(st, n + 1)
         IN [special |-> c.special \o rest.special,
             uploads |-> c.uploads + rest.uploads]

\* the number of keys of a listing
Length(c) == Len(c.special) + c.uploads

\* keys.slice(from, to)
Slice(c, from, to) ==
    [special |-> SubSeq(c.special, from + 1, Least(to, Len(c.special))),
     uploads |-> Most(0, Least(to, Length(c)) - Most(from, Len(c.special)))]

\* one page of a listing holds at most 1000 keys
FirstPage(c) == Slice(c, 0, BatchSize)

\* .filter(o => (o.Size||0) > 0)
Positive(c) ==
    [special |-> SelectSeq(c.special, LAMBDA k : SizeOf(k) > 0),
     uploads |-> c.uploads]

\* the bucket after a PutObjectCommand of key k
Put(st, k) == [st EXCEPT !.objects = @ \cup {k}]

\* the bucket after a DeleteObjectCommand of key k
Remove(st, k) == [st EXCEPT !.objects = @ \ {k}]

\* the bucket after a DeleteObjectsCommand of the keys of chunk, which were
\* listed under uploads/<dir>/
RemoveAll(st, dir, chunk) ==
    [objects |-> st.objects \ Range(chunk.special),
     uploads |-> [d \in Dirs |->
                    IF d = dir THEN Most(0, st.uploads[d] - chunk.uploads)
                    ELSE st.uploads[d]]]

\* the numbers of uploaded files of a folder in the model
UploadCounts ==
    {0, 1} \cup { k * BatchSize + 1 : k \in 1..(MaxBatches - 1) }

\* what the bucket holds when a request arrives, in the model: any folders
\* with a metadata file, with or without their placeholders, one of them
\* with uploaded files
Buckets ==
    { [objects |-> { MetaKey(d) : d \in m } \cup { KeepKey(d) : d \in k },
       uploads |-> [d \in Dirs |-> IF d = f THEN n ELSE 0]] :
        m \in SUBSET {FolderOf(Str(Klasse1)), metaFolder},
        k \in SUBSET {FolderOf(Str(Klasse1)), metaFolder},
        f \in {FolderOf(Str(Klasse1)), metaFolder},
        n \in UploadCounts }

\* res.status(400).json({ error: msg })
BadRequest(msg) == [status |-> 400, body |-> [error |-> msg]]

\* res.json(body)
Ok(body) == [status |-> 200, body |-> body]

\* an upstream call throws an error with a message
ThrewWith(msg) == [threw |-> TRUE, text |-> msg]

\* what a call to S3 does; without a bucket name the SDK rejects the command
S3Outcomes == { Returned(""), ThrewWith(""), ThrewWith("AccessDenied") }
S3Outcome(o) == o \in S3Outcomes /\ (~bucket => o.threw)

\* what a call to the model does in /api/chat and /api/chat/stream
ModelOutcomes == { Returned("Hallo"), Returned(""), ThrewWith(""), ThrewWith("rate limit") }

\* the deltas of the parts of a completion stream
Deltas == { "", "Hal", "lo" }

\* err.message || fallback
MessageOr(msg, fallback) == IF msg # "" THEN msg ELSE fallback

NoBucket == "AWS_S3_BUCKET not configured in .env"
NoImageUrl == "Bild-URL konnte nicht erstellt werden"

\* a handler either answers or reaches an await
Answer(r) == [reply |-> r]
Await(at) == [await |-> at]

\* /api/chat and /api/chat/stream up to the first await: the validation,
\* getOpenAIClient(), the test for an image
StartChat(r, key) ==
    IF ~MessagesOK(r.messages) THEN Answer(BadRequest("messages array required"))
    ELSE IF ~key THEN Answer(Failure(MissingKey))
    ELSE IF HasImage(r.imageKey) THEN Await("signUrl")
    ELSE Await("create")

\* /api/uploads/presign up to createPresignedPost
StartPresign(r, b) ==
    IF ~Truthy(r.contentType) THEN Answer(BadRequest("contentType is required"))
    ELSE IF ~b THEN Answer(Failure(NoBucket))
    ELSE IF ~PresignFolderOK(r.folder) THEN Answer(BadRequest("invalid folder name"))
    ELSE Await("presign")

\* /api/uploads/delete up to the DeleteObjectCommand
StartDeleteUpload(r, b) ==
    IF ~KeyIsString(r.key) THEN Answer(BadRequest("key is required"))
    ELSE IF ~b THEN Answer(Failure(NoBucket))
    ELSE Await("deleteObject")

\* /api/uploads/view-url up to getSignedUrl
StartViewUrl(r, b) ==
    IF ~Truthy(r.key) THEN Answer(BadRequest("key is required"))
    ELSE IF ~b THEN Answer(Failure(NoBucket))
    ELSE Await("signUrl")

\* GET /api/uploads up to the ListObjectsV2Command
StartListUploads(b) ==
    IF ~b THEN Answer([status |-> 500, body |-> [error |-> NoBucket, items |-> NoContents]])
    ELSE Await("listUploads")

\* POST /api/folders up to the first PutObjectCommand
StartCreateFolder(r) ==
    IF ~FolderOK(r.name) THEN Answer(BadRequest("invalid folder name"))
    ELSE Await("putMeta")

\* /api/folders/delete up to the first ListObjectsV2Command
StartDeleteFolder(r) ==
    IF ~FolderOK(r.name) THEN Answer(BadRequest("invalid folder name"))
    ELSE Await("listKeys")

\* the handler of route e up to its first await
Start(e, r, key, b) ==
    CASE e \in {Chat, ChatStream} -> StartChat(r, key)
      [] e = PresignUpload -> StartPresign(r, b)
      [] e = DeleteUpload -> StartDeleteUpload(r, b)
      [] e = ViewUrl -> StartViewUrl(r, b)
      [] e = ListUploads -> StartListUploads(b)
      [] e = ListFolders -> Await("listMeta")
      [] e = CreateFolder -> StartCreateFolder(r)
      [] e = DeleteFolder -> StartDeleteFolder(r)

\* res.status(..).json(..) and the handler returns
Reply(r) ==
    /\ Respond(r)
    /\ headersSent' = TRUE

\* the handler goes on to its next await
Goto(at) ==
    /\ pc' = at
    /\ UNCHANGED <<res, headersSent>>

\* the state of the request that the sketch handler alone uses
sketchLocals == <<prompt, content, sketch, tries, aufgabe, schritte, hint, reviewOk>>

\* the state of the stream of /api/chat/stream
streamVars == <<upstream, received, written, ended>>

\* the state of the loops of the folder handlers
loopVars == <<folderNames, idx, result, listed, keys, pages, offset, batches>>

\* no request has arrived
HttpIdle ==
    /\ ep = "none"
    /\ req = NoFields
    /\ bucket = FALSE
    /\ upstream = "none"
    /\ received = <<>>
    /\ written = <<>>
    /\ headersSent = FALSE
    /\ ended = FALSE
    /\ folderNames = <<>>
    /\ idx = 0
    /\ result = <<>>
    /\ listed = NoContents
    /\ keys = 0
    /\ pages = 0
    /\ offset = 0
    /\ batches = <<>>

\* the server starts with an empty bucket
HttpInit == HttpIdle /\ s3 = EmptyBucket

\* the server starts with a bucket that earlier runs and uploads have filled
HttpInitFilled == HttpIdle /\ s3 \in Buckets

\* a request to one of the routes arrives
HttpRequest(e, r, key, b) ==
    /\ pc = "idle"
    /\ r \in Requests(e)
    /\ ep' = e
    /\ req' = r
    /\ apiKey' = key
    /\ bucket' = b
    /\ LET st == Start(e, r, key, b)
       IN IF "reply" \in DOMAIN st THEN Reply(st.reply) ELSE Goto(st.await)
    /\ UNCHANGED <<calls, sketchLocals, streamVars, loopVars, s3, socketVars>>

\* calls, with one more call and whether it threw
Called(name, o) == Append(calls, [call |-> name, threw |-> o.threw])

\* await getSignedUrl(...) in /api/chat, /api/chat/stream and view-url
SignUrl(o) ==
    /\ pc = "signUrl"
    /\ S3Outcome(o)
    /\ calls' = Called("getSignedUrl", o)
    /\ IF ep = ViewUrl
       THEN IF o.threw
            THEN Reply(Failure(MessageOr(o.text, "Failed to create view URL")))
            ELSE Reply(Ok([url |-> "url"]))
       ELSE IF o.threw THEN Reply(Failure(NoImageUrl)) ELSE Goto("create")
    /\ UNCHANGED <<ep, req, apiKey, bucket, sketchLocals, streamVars, loopVars, s3, socketVars>>

ChatFailureAs200(msg) ==
    [status |-> 200,
     body |-> [error |-> RequestFailed, detail |-> MessageOr(msg, "[object]")]]

\* the catch of /api/chat: res.status(500).json({ error, detail })
ChatFailure(msg) ==
    [status |-> 500,
     body |-> [error |-> RequestFailed, detail |-> MessageOr(msg, "[object]")]]

\* await openai.chat.completions.create(...) in /api/chat and /api/chat/stream
Create(o) ==
    /\ pc = "create"
    /\ o \in ModelOutcomes
    /\ calls' = Called("create", o)
    /\ IF ep = Chat
       THEN /\ IF o.threw THEN Reply(ChatFailure(o.text))
               ELSE Reply(Ok([reply |-> o.text]))
            /\ UNCHANGED upstream
       ELSE IF o.threw
       THEN Reply(Failure(MessageOr(o.text, RequestFailed))) /\ UNCHANGED upstream
       ELSE Goto("stream") /\ upstream' = "open"
    /\ UNCHANGED <<ep, req, apiKey, bucket, sketchLocals, received, written, ended,
                   loopVars, s3, socketVars>>

WriteAll(w, delta) == Append(w, delta)

\* if (delta) res.write(delta)
Write(w, delta) == IF delta # "" THEN Append(w, delta) ELSE w

\* one turn of  for await (const part of stream)
StreamPart(delta) ==
    /\ pc = "stream"
    /\ Len(received) < MaxParts
    /\ received' = Append(received, delta)
    /\ written' = Write(written, delta)
    /\ headersSent' = (headersSent \/ written' # written)
    /\ UNCHANGED <<pc, res, calls, ep, req, apiKey, bucket, sketchLocals, upstream,
                   ended, loopVars, s3, socketVars>>

\* the stream is exhausted: res.end()
StreamEnd ==
    /\ pc = "stream"
    /\ upstream' = "exhausted"
    /\ ended' = TRUE
    /\ headersSent' = TRUE
    /\ pc' = "done"
    /\ UNCHANGED <<res, calls, ep, req, apiKey, bucket, sketchLocals, received,
                   written, loopVars, s3, socketVars>>

StreamErrorAlways(sent, msg) == <<Failure(MessageOr(msg, RequestFailed))>>

\* the catch of /api/chat/stream: the JSON bodies it sends
StreamError(sent, msg) ==
    IF ~sent THEN <<Failure(MessageOr(msg, RequestFailed))>> ELSE <<>>

\* the stream throws: the catch answers or ends the response
StreamFail(msg) ==
    /\ pc = "stream"
    /\ upstream' = "failed"
    /\ res' = res \o StreamError(headersSent, msg)
    /\ ended' = headersSent
    /\ headersSent' = TRUE
    /\ pc' = "done"
    /\ UNCHANGED <<calls, ep, req, apiKey, bucket, sketchLocals, received, written,
                   loopVars, s3, socketVars>>

\* what the handlers of the storage routes leave alone at every step
storageFrame == <<ep, req, apiKey, bucket, sketchLocals, streamVars, socketVars>>

\* await createPresignedPost(...)
Presign(o) ==
    /\ pc = "presign"
    /\ S3Outcome(o)
    /\ calls' = Called("createPresignedPost", o)
    /\ IF o.threw
       THEN Reply(Failure(MessageOr(o.text, "Failed to create presigned URL")))
       ELSE Reply(Ok([url |-> "url",
                      folder |-> IF Truthy(req.folder) /\ req.folder.t = "string"
                                 THEN Lower(Trim(req.folder.s)) ELSE <<>>]))
    /\ UNCHANGED <<storageFrame, loopVars, s3>>

\* await s3.send(new DeleteObjectCommand(...)) in /api/uploads/delete
DeleteObject(o) ==
    /\ pc = "deleteObject"
    /\ S3Outcome(o)
    /\ calls' = Called("deleteObject", o)
    /\ IF o.threw
       THEN Reply(Failure(MessageOr(o.text, "Failed to delete object")))
       ELSE Reply(Ok([ok |-> TRUE]))
    /\ UNCHANGED <<storageFrame, loopVars, s3>>

\* GET /api/uploads: the listing under the prefix of the folder, or under
\* uploads/ without one
UploadsOf(st, f) ==
    LET folder == Trim(IF Truthy(f) THEN StringOf(f) ELSE <<>>)
    IN IF folder = <<>> THEN ContentsFrom(st, 1) ELSE Contents(st, folder)

\* await s3.send(new ListObjectsV2Command(...)) in GET /api/uploads
ListObjects(o) ==
    /\ pc = "listUploads"
    /\ S3Outcome(o)
    /\ calls' = Called("listObjects", o)
    /\ IF o.threw
       THEN Reply([status |-> 500,
                   body |-> [error |-> MessageOr(o.text, "Failed to list uploads"),
                             items |-> NoContents]])
       ELSE Reply(Ok([items |-> Positive(FirstPage(UploadsOf(s3, req.folder)))]))
    /\ UNCHANGED <<storageFrame, loopVars, s3>>

\* the catch of GET /api/folders
FoldersFailure(msg) ==
    [status |-> 500,
     body |-> [error |-> MessageOr(msg, "Failed to list folders"), folders |-> <<>>]]

\* result.sort((a,b)=> a.name.localeCompare(b.name))
SortByName(entries) ==
    LET names == SelectSeq(LocaleOrder,
                           LAMBDA n : \E e \in Range(entries) : e.name = n)
    IN [n \in DOMAIN names |->
          CHOOSE e \in Range(entries) : e.name = names[n]]

\* GET /api/folders: the listing of uploads/_folders/ and the names of the
\* metadata files on its page
ListMeta(o) ==
    /\ pc = "listMeta"
    /\ S3Outcome(o)
    /\ calls' = Called("listObjects", o)
    /\ IF o.threw
       THEN Reply(FoldersFailure(o.text)) /\ UNCHANGED folderNames
       ELSE LET metas == SelectSeq(FirstPage(Contents(s3, metaFolder)).special,
                                   EndsWithJson)
            IN /\ folderNames' = [n \in DOMAIN metas |-> NameOf(metas[n])]
               /\ IF metas = <<>> THEN Reply(Ok([folders |-> <<>>]))
                  ELSE Goto("readShared")
    /\ UNCHANGED <<storageFrame, idx, result, listed, keys, pages, offset, batches, s3>>

\* GET /api/folders: readShared(name), whose catch answers false
ReadShared(o) ==
    /\ pc = "readShared"
    /\ S3Outcome(o)
    /\ calls' = Called("getObject", o)
    /\ Goto("countFolder")
    /\ UNCHANGED <<storageFrame, loopVars, s3>>

\* GET /api/folders: the listing of one folder, and the end of the loop
CountFolder(o) ==
    /\ pc = "countFolder"
    /\ S3Outcome(o)
    /\ calls' = Called("listObjects", o)
    /\ IF o.threw
       THEN Reply(FoldersFailure(o.text)) /\ UNCHANGED <<idx, result>>
       ELSE LET name == folderNames[idx + 1]
                list == FirstPage(Contents(s3, name))
            IN /\ idx' = idx + 1
               /\ result' = Append(result, [name |-> name, shared |-> FALSE,
                                            count |-> Length(Positive(list))])
               /\ IF idx' = Len(folderNames)
                  THEN Reply(Ok([folders |-> SortByName(result')]))
                  ELSE Goto("readShared")
    /\ UNCHANGED <<storageFrame, folderNames, listed, keys, pages, offset, batches, s3>>

\* the catch of POST /api/folders
CreateFailure(msg) == Failure(MessageOr(msg, "Failed to create folder"))

\* POST /api/folders: the PutObjectCommand of the metadata file
PutMeta(o) ==
    /\ pc = "putMeta"
    /\ S3Outcome(o)
    /\ calls' = Called("putObject", o)
    /\ IF o.threw
       THEN Reply(CreateFailure(o.text)) /\ UNCHANGED s3
       ELSE Goto("putKeep") /\ s3' = Put(s3, MetaKey(FolderOf(req.name)))
    /\ UNCHANGED <<storageFrame, loopVars>>

\* POST /api/folders: the PutObjectCommand of the .keep placeholder
PutKeep(o) ==
    /\ pc = "putKeep"
    /\ S3Outcome(o)
    /\ calls' = Called("putObject", o)
    /\ IF o.threw
       THEN Reply(CreateFailure(o.text)) /\ UNCHANGED s3
       ELSE Reply(Ok([ok |-> TRUE])) /\ s3' = Put(s3, KeepKey(FolderOf(req.name)))
    /\ UNCHANGED <<storageFrame, loopVars>>

\* the catch of /api/folders/delete
DeleteFailure(msg) == Failure(MessageOr(msg, "Failed to delete folder"))

\* /api/folders/delete: one page of the listing of uploads/<folder>/, which
\* is truncated when the folder holds more keys
ListKeys(o) ==
    /\ pc = "listKeys"
    /\ S3Outcome(o)
    /\ calls' = Called("listObjects", o)
    /\ IF o.threw
       THEN Reply(DeleteFailure(o.text)) /\ UNCHANGED <<listed, keys, pages>>
       ELSE LET out == Contents(s3, FolderOf(req.name))
            IN /\ listed' = Slice(out, 0, keys + BatchSize)
               /\ keys' = Length(listed')
               /\ pages' = pages + 1
               /\ IF keys' < Length(out) THEN UNCHANGED <<pc, res, headersSent>>
                  ELSE IF 0 < keys' THEN Goto("deleteBatch")
                  ELSE Goto("deleteMeta")
    /\ UNCHANGED <<storageFrame, folderNames, idx, result, offset, batches, s3>>

NextOffsetByOne(n) == n + 1

\* i += 1000
NextOffset(n) == n + BatchSize

\* /api/folders/delete: the DeleteObjectsCommand of keys.slice(i, i+1000)
DeleteBatch(o) ==
    /\ pc = "deleteBatch"
    /\ S3Outcome(o)
    /\ calls' = Called("deleteObjects", o)
    /\ batches' = Append(batches, [from |-> offset,
                                   to |-> Least(offset + BatchSize, keys)])
    /\ IF o.threw
       THEN Reply(DeleteFailure(o.text)) /\ UNCHANGED <<offset, s3>>
       ELSE /\ s3' = RemoveAll(s3, FolderOf(req.name),
                               Slice(listed, offset, offset + BatchSize))
            /\ offset' = NextOffset(offset)
            /\ IF offset' < keys THEN UNCHANGED <<pc, res, headersSent>>
               ELSE Goto("deleteMeta")
    /\ UNCHANGED <<storageFrame, folderNames, idx, result, listed, keys, pages>>

\* /api/folders/delete: the DeleteObjectCommand of the metadata file
DeleteMeta(o) ==
    /\ pc = "deleteMeta"
    /\ S3Outcome(o)
    /\ calls' = Called("deleteObject", o)
    /\ IF o.threw
       THEN Reply(DeleteFailure(o.text)) /\ UNCHANGED s3
       ELSE /\ Reply(Ok([ok |-> TRUE, deleted |-> keys]))
            /\ s3' = Remove(s3, MetaKey(FolderOf(req.name)))
    /\ UNCHANGED <<storageFrame, loopVars>>

HttpNext ==
    \/ \E e \in Endpoints : \E r \in Requests(e) : \E key, b \in BOOLEAN :
          HttpRequest(e, r, key, b)
    \/ \E o \in S3Outcomes : SignUrl(o)
    \/ \E o \in ModelOutcomes : Create(o)
    \/ \E delta \in Deltas : StreamPart(delta)
    \/ StreamEnd
    \/ \E msg \in {"", "aborted"} : StreamFail(msg)
    \/ \E o \in S3Outcomes : Presign(o)
    \/ \E o \in S3Outcomes : DeleteObject(o)
    \/ \E o \in S3Outcomes : ListObjects(o)
    \/ \E o \in S3Outcomes : ListMeta(o)
    \/ \E o \in S3Outcomes : ReadShared(o)
    \/ \E o \in S3Outcomes : CountFolder(o)
    \/ \E o \in S3Outcomes : PutMeta(o)
    \/ \E o \in S3Outcomes : PutKeep(o)
    \/ \E o \in S3Outcomes : ListKeys(o)
    \/ \E o \in S3Outcomes : DeleteBatch(o)
    \/ \E o \in S3Outcomes : DeleteMeta(o)

\* one request to any of the endpoints
ApiNext == SketchNext \/ HttpNext

(***************************************************************************)
(* The /video namespace                                                    *)
(***************************************************************************)
\* the video connections, the frames and the clock values of the model
MaxVideoConns == 2
MaxFrames == 3
MaxTime == 1

VideoConns == 1..MaxVideoConns
Times == 0..MaxTime

\* the n-th value of uuidv4()
Uuid(n) == <<"uuid", n>>

DataUrl == "data:image/jpeg;base64,"

\* the values of data.frame in the model
Frames == { <<DataUrl, "AAAA">>, <<"BBBB">> }

\* data.frame.replace(/^data:image\/\w+;base64,/, '')
StripDataUrl(frame) ==
    IF frame # <<>> /\ frame[1] = DataUrl THEN Tail(frame) ELSE frame

FileNameWithoutCount(id, timestamp, count) == <<"frame_", id, "_", timestamp, ".jpg">>

\* `frame_${sessionId}_${timestamp}_${frameCount++}.jpg`
FileName(id, timestamp, count) ==
    <<"frame_", id, "_", timestamp, "_", count, ".jpg">>

VideoInit ==
    /\ vstatus = [v \in VideoConns |-> "unjoined"]
    /\ uuids = 0
    /\ sessionId = [v \in VideoConns |-> <<>>]
    /\ frameCount = [v \in VideoConns |-> 0]
    /\ issued = <<>>
    /\ outcome = <<>>
    /\ files = {}

\* io.of('/video').on('connection'): connections arrive in the order of
\* their numbers
VideoConnect(v) ==
    /\ vstatus[v] = "unjoined"
    /\ \A u \in VideoConns : u < v => vstatus[u] # "unjoined"
    /\ vstatus' = [vstatus EXCEPT ![v] = "joined"]
    /\ uuids' = uuids + 1
    /\ sessionId' = [sessionId EXCEPT ![v] = Uuid(uuids')]
    /\ frameCount' = [frameCount EXCEPT ![v] = 0]
    /\ UNCHANGED <<issued, outcome, files, relayVars, apiVars>>

\* socket.on('video_frame'): Date.now() is timestamp
OnVideoFrame(v, frame, timestamp) ==
    /\ vstatus[v] = "joined"
    /\ Len(issued) < MaxFrames
    /\ issued' = Append(issued,
                        [name |-> FileName(sessionId[v], timestamp, frameCount[v]),
                         data |-> StripDataUrl(frame)])
    /\ outcome' = Append(outcome, "pending")
    /\ frameCount' = [frameCount EXCEPT ![v] = frameCount[v] + 1]
    /\ UNCHANGED <<vstatus, uuids, sessionId, files, relayVars, apiVars>>

\* the directory after a file was written
Written(dir, w) == { f \in dir : f.name # w.name } \cup {w}

\* a call of fs.writeFile completes, in any order, and saved the file or not
WriteDone(k, saved) ==
    /\ k \in DOMAIN issued
    /\ outcome[k] = "pending"
    /\ outcome' = [outcome EXCEPT ![k] = IF saved THEN "saved" ELSE "failed"]
    /\ files' = IF saved THEN Written(files, issued[k]) ELSE files
    /\ UNCHANGED <<vstatus, uuids, sessionId, frameCount, issued, relayVars, apiVars>>

\* socket.on('disconnect') of /video
VideoDisconnect(v) ==
    /\ vstatus[v] = "joined"
    /\ vstatus' = [vstatus EXCEPT ![v] = "left"]
    /\ UNCHANGED <<uuids, sessionId, frameCount, issued, outcome, files,
                   relayVars, apiVars>>

VideoNext ==
    \/ \E v \in VideoConns : VideoConnect(v)
    \/ \E v \in VideoConns : \E frame \in Frames : \E timestamp \in Times :
          OnVideoFrame(v, frame, timestamp)
    \/ \E k \in 1..MaxFrames : \E saved \in BOOLEAN : WriteDone(k, saved)
    \/ \E v \in VideoConns : VideoDisconnect(v)

\* the connections are opened and closed, and no event is sent: the first
\* client tries every handshake
HandshakeNext ==
    \/ \E c \in Conns : \E h \in HandshakesOf(c) : Connect(c, h)
    \/ \E c \in Conns : Disconnect(c)

Init == RelayInit /\ VideoInit /\ SketchInit /\ HttpInit

InitFilled == RelayInit /\ VideoInit /\ SketchInit /\ HttpInitFilled

Next == RelayNext

Spec == Init /\ [][Next]_vars

\* the handshakes of /classlink
SpecHandshake == Init /\ [][HandshakeNext]_vars

\* the /video namespace
SpecVideo == Init /\ [][VideoNext]_vars

\* the handling of one request to POST /api/sketch
SpecSketch == Init /\ [][SketchNext]_vars

\* the handling of one request to one of the other endpoints
SpecHttp == InitFilled /\ [][HttpNext]_vars

\* the handling of one request to any endpoint
SpecApi == InitFilled /\ [][ApiNext]_vars

(***************************************************************************)
(* Properties of the relay                                                 *)
(***************************************************************************)
\* a handler ran in this step: last' is the event it was called with
Arrived == last'.id # last.id

Joined(c) == status[c] = "joined"

\* the packet with which an arrived event reaches a peer unchanged
Verbatim(e) == [id |-> e.id, from |-> e.from, ev |-> e.ev, args |-> e.args]

\* the packets of event number n in a log
Copies(log, n) == { i \in DOMAIN log : log[i].id = n }

\* the connections that share the room of the sender of the arrived event
\* when it arrives, the sender excluded
Peers(e) == { r \in Conns \ {e.from} : Joined(r) /\ room[r] = e.room }

\* the connections that are in another room when the event arrives
Strangers(e) == { r \in Conns : Joined(r) /\ room[r] # e.room }

\* the session identifier in effect: the supplied one, else the socket id
EffectiveSid(c) == IF sid[c] # Absent THEN sid[c] ELSE SocketId(c)

\* C1: a frame emitted by a member of a room reaches every other connection
\* that is a member of that room at that time, and no connection that is a
\* member of a different room.
C1_FrameStaysInRoom ==
    [][(Arrived /\ last'.ev = "frame") =>
         /\ \A r \in Peers(last') :
               /\ Len(delivered'[r]) = Len(delivered[r]) + 1
               /\ delivered'[r][Len(delivered'[r])].id = last'.id
               /\ delivered'[r][Len(delivered'[r])].ev = "frame"
         /\ \A r \in Strangers(last') : delivered'[r] = delivered[r]]_vars

C1_Witness ==
    /\ last.ev = "frame"
    /\ \E r \in Peers(last) : Copies(delivered[r], last.id) # {}
    /\ \E r \in Strangers(last) : Copies(delivered[r], last.id) = {}

\* C2: connections whose session identifiers differ (such as "abc" and
\* "abd") never receive each other's start, stop or status events.
C2_DifferentSidsIsolated ==
    [][(Arrived /\ last'.ev \in {"start", "stop", "status"}) =>
         \A r \in Conns :
            (Joined(r) /\ EffectiveSid(r) # EffectiveSid(last'.from))
               => delivered'[r] = delivered[r]]_vars

C2_Witness ==
    /\ last.ev \in {"start", "stop", "status"}
    /\ Joined(last.from) /\ sid[last.from] = abc
    /\ \E r \in Conns : Joined(r) /\ sid[r] = abd /\ delivered[r] = <<>>

\* C3: when B emits one frame (or status) with payload p, every connection A
\* in B's room receives exactly one packet for that emission, and it carries
\* the same event name and the payload p unchanged.
C3_ExactlyOnceUnchanged ==
    [][(Arrived /\ last'.ev \in {"frame", "status"}) =>
         \A r \in Peers(last') :
            /\ delivered'[r] = Append(delivered[r], Verbatim(last'))
            /\ Cardinality(Copies(delivered'[r], last'.id)) = 1]_vars

C3_Witness ==
    /\ last.ev = "frame" /\ last.args = <<framePayload>>
    /\ Joined(last.from) /\ role[last.from] = mobile /\ sid[last.from] = abc
    /\ \E r \in Peers(last) :
          /\ role[r] = desktop
          /\ delivered[r] = <<Verbatim(last)>>

\* C4: a connection that supplied no session identifier is the sole member
\* of its room, and no other connection receives an event it emits.
C4_NoSidIsAlone ==
    \A c \in Conns :
       (Joined(c) /\ sid[c] = Absent) =>
          /\ To(rooms, room[c]) = {c}
          /\ \A r \in Conns \ {c} : \A i \in DOMAIN delivered[r] :
                delivered[r][i].from # c

\* C5: events forwarded on behalf of a connection that supplied no session
\* identifier are received by no connection, the emitter included.
C5_NoSidReachesNoOne ==
    \A c \in Conns :
       (Joined(c) /\ sid[c] = Absent) =>
          \A r \in Conns : \A i \in DOMAIN delivered[r] :
             delivered[r][i].from # c

\* C6: after a connection has disconnected, an event of a remaining member
\* reaches the other remaining members of the room and never the
\* disconnected connection.
C6_DisconnectedGetsNothing ==
    [][(Arrived /\ \E d \in Conns : status[d] = "left") =>
         /\ \A d \in Conns : status[d] = "left" => delivered'[d] = delivered[d]
         /\ \A r \in Peers(last') :
               Copies(delivered'[r], last'.id) # {}]_vars

C6_Witness ==
    /\ last.gone # {}
    /\ Joined(last.from)
    /\ \E r \in Peers(last) : Copies(delivered[r], last.id) # {}

C8_OneRoomForLife ==
    [][\A c \in Conns :
          /\ Cardinality(RoomsOf(c)') <= 1
          /\ (RoomsOf(c) # {} => RoomsOf(c)' \subseteq RoomsOf(c))]_vars

C8_Witness ==
    /\ \A c \in Conns : Joined(c) /\ Cardinality(RoomsOf(c)) = 1
    /\ last.id = MaxEmit
    /\ \E c, d \in Conns : RoomsOf(c) # RoomsOf(d)

\* C9: the events of one connection reach each peer in the order in which
\* that connection emitted them.
C9_SenderOrderKept ==
    \A r \in Conns : \A i, j \in DOMAIN delivered[r] :
       (i < j /\ delivered[r][i].from = delivered[r][j].from)
          => delivered[r][i].id < delivered[r][j].id

C9_Witness ==
    \E r \in Conns :
       /\ Len(delivered[r]) = 2
       /\ delivered[r][1].from = delivered[r][2].from
       /\ delivered[r][1].from # r
       /\ delivered[r][1].ev # delivered[r][2].ev

(***************************************************************************)
(* Properties of POST /api/sketch                                          *)
(***************************************************************************)
\* the first completion returned a text, and JSON.parse threw on it
SketchUnparsed ==
    /\ PromptOK(prompt)
    /\ calls # <<>>
    /\ ~calls[1].threw
    /\ ~Parses(content)

\* C10: a well-formed request whose completion text fails JSON parsing is
\* answered once, with an error response that carries the raw text and whose
\* status is not 200, and no further upstream call is made for it.
C10_UnparsedIsAnError ==
    SketchUnparsed =>
       /\ pc = "done"
       /\ Len(res) = 1
       /\ res[1].status # 200
       /\ res[1].status >= 400
       /\ DOMAIN res[1].body = {"error", "raw"}
       /\ res[1].body.raw = content
       /\ Len(calls) = 1

C10_Witness ==
    /\ SketchUnparsed
    /\ content = "{\"layers\":[{\"name\":\"Schritt 1\"}"
    /\ res = <<ParseFailure(content)>>

\* the first completion returned a text that is JSON
SketchParsed ==
    /\ PromptOK(prompt)
    /\ calls # <<>>
    /\ ~calls[1].threw
    /\ Parses(content)

\* the value has one of the top-level keys of a sketch
HasSketchKeys(v) ==
    v.t = "object" /\ DOMAIN v.fields \cap {"layers", "strokes"} # {}

\* C11: when the completion text is JSON without the top-level keys of a
\* sketch, the request is answered once with a 5xx error whose message
\* differs from the one for malformed JSON; a response with status 200 is
\* sent only for a parsed value that has one of these keys.
C11_MissingKeysIsInvalidOutput ==
    /\ (SketchParsed /\ ~HasSketchKeys(JSONParse(content))) =>
          /\ pc = "done"
          /\ Len(res) = 1
          /\ res[1].status >= 500
          /\ "error" \in DOMAIN res[1].body
          /\ res[1].body.error # ParseFailure(content).body.error
          /\ Len(calls) = 1
    /\ \A i \in DOMAIN res :
          res[i].status = 200 =>
             SketchParsed /\ HasSketchKeys(JSONParse(content))

C11_Witness ==
    /\ SketchParsed
    /\ content = "{\"steps\":[\"Schritt 1\"]}"
    /\ res = <<InvalidFormat(content)>>

(***************************************************************************)
(* Properties of the handshake and of the control signals                  *)
(***************************************************************************)
\* C13: when a room member emits start or stop, the relay forwards the same
\* signal without payload, and exactly the other members of the sender's
\* room receive it: the sender does not.
C13_ControlToOthersOnly ==
    [][(Arrived /\ last'.ev \in {"start", "stop"}) =>
         \A r \in Conns :
            IF r \in Peers(last')
            THEN delivered'[r] =
                    Append(delivered[r],
                           [id |-> last'.id, from |-> last'.from,
                            ev |-> last'.ev, args |-> <<>>])
            ELSE delivered'[r] = delivered[r]]_vars

\* the next connection to arrive
NextToConnect(c) ==
    status[c] = "unjoined" /\ \A b \in Conns : b < c => status[b] # "unjoined"

\* C14: no handshake is rejected; an absent role becomes desktop, an absent
\* or empty sid becomes the socket id, and the connection is in exactly the
\* room named by the session identifier that results.
C14_HandshakeDefaults ==
    \A c \in Conns :
       /\ NextToConnect(c) => \A h \in HandshakesOf(c) : ENABLED Connect(c, h)
       /\ Joined(c) =>
             /\ (handshake[c].authRole = Absent /\ handshake[c].queryRole = Absent)
                   => role[c] = desktop
             /\ (handshake[c].authSid = Absent /\ handshake[c].querySid = Absent)
                   => /\ sid[c] = Absent
                      /\ room[c] = RoomPrefix \o SocketId(c)
             /\ RoomsOf(c) = {RoomPrefix \o EffectiveSid(c)}

C14_Witness ==
    /\ Joined(1) /\ Joined(2)
    /\ handshake[1] = Hs(Absent, Absent, Absent, abd)
    /\ role[1] = desktop /\ RoomsOf(1) = {RoomPrefix \o abd}
    /\ handshake[2] = NoHandshake
    /\ role[2] = desktop /\ RoomsOf(2) = {RoomPrefix \o SocketId(2)}

\* C19: the role of every joined connection is desktop or mobile, whatever
\* role the handshake carried.
C19_RoleIsEnumerated ==
    \A c \in Conns : Joined(c) => role[c] \in {desktop, mobile}

(***************************************************************************)
(* Properties of the HTTP endpoints                                        *)
(***************************************************************************)
\* a request is being handled or has been handled
Requested == pc # "idle"

\* the request went to /api/sketch
ToSketch == Requested /\ ep = "none"

\* the required field of the request is missing or of the wrong shape
\* (folders: the name is invalid)
RequiredFieldBad ==
    \/ ToSketch /\ ~(prompt.t = "string" /\ prompt.s # <<>>)
    \/ ep \in {Chat, ChatStream}
          /\ ~(req.messages.t = "array" /\ req.messages.items # <<>>)
    \/ ep = PresignUpload /\ req.contentType \in {Undefined, Str(<<>>)}
    \/ ep \in {DeleteUpload, ViewUrl} /\ req.key \in {Undefined, Str(<<>>)}
    \/ ep \in {CreateFolder, DeleteFolder} /\ ~FolderRegex(FolderOf(req.name))

\* C12: a request whose required field is missing or of the wrong shape is
\* answered with one 400-class response that carries a message, and no
\* external call is made for it, whether or not the API key and the bucket
\* are configured.
C12_ValidationComesFirst ==
    (Requested /\ RequiredFieldBad) =>
        /\ pc = "done"
        /\ calls = <<>>
        /\ Len(res) = 1
        /\ res[1].status \in 400..499
        /\ "error" \in DOMAIN res[1].body
        /\ res[1].body.error # ""

C12_Witness ==
    /\ ep = DeleteFolder
    /\ req.name = Str(twoWords)
    /\ ~apiKey /\ ~bucket
    /\ pc = "done"
    /\ res = <<BadRequest("invalid folder name")>>
    /\ calls = <<>>

\* the last external call of the request threw
LastThrew == calls # <<>> /\ calls[Len(calls)].threw

\* an external call of the request threw, or its stream failed
SomeFailure == (\E n \in DOMAIN calls : calls[n].threw) \/ upstream = "failed"

\* the request was answered with one 500-class response that has a message
OneError ==
    /\ Len(res) = 1
    /\ res[1].status \in 500..599
    /\ "error" \in DOMAIN res[1].body
    /\ res[1].body.error # ""

\* C15 as stated: no call of the sketch handler is issued twice within a
\* request, and a request one of whose external calls failed is answered
\* with one error response.
C15_NoRetryAndEveryFailureSurfaced ==
    /\ ToSketch =>
          \A m, n \in DOMAIN calls : m # n => calls[m].call # calls[n].call
    /\ (pc = "done" /\ SomeFailure) => OneError

\* C15, amended: the only call issued again is the task text of the sketch
\* fallback, once more and only after an answer that did not throw; a call
\* that threw is followed by no other call, readShared's GetObject excepted;
\* no request is answered twice; a failure of the last call is answered by
\* one 500, or, in the sketch fallback, by the 200 with the sketch; a failed
\* stream ends in one 500 or, once something was written, in silence.
C15_OnlyTaskTextIsReissued ==
    /\ ToSketch =>
          /\ \A m, n \in DOMAIN calls :
                (m < n /\ calls[m].call = calls[n].call) =>
                    /\ calls[m].call = "aufgabe"
                    /\ n = m + 1
                    /\ ~calls[m].threw
          /\ Cardinality({ n \in DOMAIN calls : calls[n].call = "aufgabe" }) <= MaxTries
    /\ \A n \in DOMAIN calls :
          (calls[n].threw /\ n < Len(calls)) => calls[n].call = "getObject"
    /\ Len(res) <= 1
    /\ (pc = "done" /\ LastThrew) =>
          IF ToSketch /\ Len(calls) > 1 THEN res = <<Success(sketch)>> ELSE OneError
    /\ upstream = "failed" =>
          IF written # <<>> THEN res = <<>> /\ ended ELSE OneError

C15_Witness ==
    /\ ToSketch
    /\ pc = "done"
    /\ Len(calls) = 3
    /\ calls[2] = [call |-> "aufgabe", threw |-> FALSE]
    /\ calls[3] = [call |-> "aufgabe", threw |-> TRUE]
    /\ res = <<Success(sketch)>>

\* the batches that /api/folders/delete needs for the keys it has collected
Batches == (keys + BatchSize - 1) \div BatchSize

\* C16 as stated: no request makes more than two external calls.
C16_AtMostTwoCalls == Len(calls) <= 2

\* C16, amended: /api/sketch makes at most MaxTries + 4 calls, GET
\* /api/folders one call and two per folder, /api/folders/delete one call per
\* listing page, one per batch of 1000 keys and one for the metadata file;
\* every other endpoint makes at most two.
C16_CallsPerRequest ==
    IF ToSketch THEN Len(calls) <= MaxTries + 4
    ELSE IF ep = ListFolders THEN Len(calls) <= 1 + 2 * Len(folderNames)
    ELSE IF ep = DeleteFolder THEN Len(calls) <= pages + Batches + 1
    ELSE Len(calls) <= 2

C16_Witness ==
    /\ ep = DeleteFolder
    /\ pc = "done"
    /\ keys > BatchSize
    /\ Len(calls) = 5
    /\ res = <<Ok([ok |-> TRUE, deleted |-> keys])>>

\* C17: when the stream of /api/chat/stream fails after a fragment has been
\* written, the response is ended and no error body is sent; an error body
\* with status 500 is sent only when nothing has been written.
C17_SilentEndAfterFirstWrite ==
    ep = ChatStream =>
       /\ upstream = "failed" =>
             IF written # <<>>
             THEN res = <<>> /\ ended
             ELSE OneError /\ res[1].status = 500 /\ ~ended
       /\ res # <<>> => written = <<>>

C17_Witness ==
    /\ ep = ChatStream
    /\ upstream = "failed"
    /\ received = <<"", "Hal">>
    /\ written = <<"Hal">>
    /\ res = <<>>
    /\ ended

\* C18 as stated: a request one of whose external calls failed is answered
\* with a 500-class status and a message, never with a 2xx status.
C18_FailureIsNever2xx ==
    (pc = "done" /\ SomeFailure) =>
        /\ OneError
        /\ ~ended

\* C18, amended: a request one of whose external calls failed is answered
\* with one 500-class response that has a message, except that a failure in
\* the sketch fallback is answered 200 with the sketch as it is, a failure
\* of readShared's GetObject alone leaves GET /api/folders at 200, and a
\* stream that fails after a fragment was written ends the 200 response.
C18_FailureIs500OrSwallowed ==
    (pc = "done" /\ SomeFailure) =>
        IF ToSketch /\ Len(calls) > 1
        THEN res = <<Success(sketch)>>
        ELSE IF ep = ListFolders /\ ~LastThrew
        THEN Len(res) = 1 /\ res[1].status = 200
        ELSE IF ep = ChatStream /\ upstream = "failed" /\ written # <<>>
        THEN res = <<>> /\ ended
        ELSE OneError /\ ~ended

C18_Witness ==
    /\ ep = ListFolders
    /\ pc = "done"
    /\ calls = <<[call |-> "listObjects", threw |-> FALSE],
                 [call |-> "getObject", threw |-> TRUE],
                 [call |-> "listObjects", threw |-> FALSE]>>
    /\ Len(res) = 1
    /\ res[1].status = 200
    /\ Len(res[1].body.folders) = 1

\* a delta that is written
NonEmpty(delta) == delta # ""

SketchValid ==
    /\ SketchParsed
    /\ \/ Truthy(Get(JSONParse(content), "layers"))
       \/ Truthy(Get(JSONParse(content), "strokes"))

\* the layers of a sketch, none when layers is not an array
LayersOf(sk) ==
    IF Get(sk, "layers").t = "array" THEN Get(sk, "layers").items ELSE <<>>

\* a layer of sk has a name that contains klausur or beispiel, in any case
NamesExam(sk) ==
    \E n \in DOMAIN LayersOf(sk) :
        LET name == Get(LayersOf(sk)[n], "name")
        IN name.t = "string" /\ ExamRegex(name.s)

\* C25: once the first completion parsed to a valid sketch the request is
\* answered 200 with that sketch: as parsed and without another call when a
\* layer is named like an exam example, as parsed when a step of the
\* fallback failed, and otherwise with one layer Klausurbeispiel appended
\* after the parsed layers and nothing else changed.
C25_FallbackIsAdditive ==
    (pc = "done" /\ SketchValid) =>
        /\ Len(res) = 1
        /\ res[1].status = 200
        /\ LET parsed == JSONParse(content)
               sent == res[1].body.sketch
           IN /\ NamesExam(parsed) => (sent = parsed /\ Len(calls) = 1)
              /\ LastThrew => sent = parsed
              /\ (~NamesExam(parsed) /\ ~LastThrew) =>
                    /\ Len(LayersOf(sent)) = Len(LayersOf(parsed)) + 1
                    /\ SubSeq(LayersOf(sent), 1, Len(LayersOf(parsed))) = LayersOf(parsed)
                    /\ Get(LayersOf(sent)[Len(LayersOf(sent))], "name") = Str(Klausurbeispiel)
                    /\ \A k \in DOMAIN parsed.fields \ {"layers"} :
                          Get(sent, k) = parsed.fields[k]
                    /\ DOMAIN sent.fields = DOMAIN parsed.fields \cup {"layers"}

C25_Witness ==
    /\ pc = "done"
    /\ content = "{\"layers\":[{\"name\":\"Schritt 1\"},{\"name\":\"Tipps\"}]}"
    /\ Len(calls) = 4
    /\ ~LastThrew
    /\ Len(LayersOf(res[1].body.sketch)) = 3

\* the calls of one kind made for the request
CallsOf(name) == { n \in DOMAIN calls : calls[n].call = name }

\* C26: one request to /api/sketch asks for the task text at most twice,
\* for the solution and the review at most once each, and for a refinement
\* at most once and only after a review that is not ok and carries a hint:
\* at most 6 calls; the task in use is an answer longer than 60 characters
\* or, after two answers that were not, the fixed default text.
C26_SketchCallsAreBounded ==
    ToSketch =>
        /\ Cardinality(CallsOf("sketch")) <= 1
        /\ Cardinality(CallsOf("aufgabe")) <= 2
        /\ Cardinality(CallsOf("loesung")) <= 1
        /\ Cardinality(CallsOf("review")) <= 1
        /\ Cardinality(CallsOf("fix")) <= 1
        /\ Len(calls) <= 6
        /\ CallsOf("fix") # {} => (~reviewOk /\ Truthy(hint))
        /\ CallsOf("loesung") # {} =>
              \/ Len(aufgabe) > 60
              \/ aufgabe = defaultAufgabe /\ Cardinality(CallsOf("aufgabe")) = 2

C26_Witness ==
    /\ pc = "done"
    /\ Len(calls) = 6
    /\ aufgabe = defaultAufgabe
    /\ ~reviewOk /\ Truthy(hint)
    /\ ~LastThrew
    /\ res[1].status = 200

\* the responses of the request: the bodies sent with res.json and the
\* res.end() of the stream
Responses == Len(res) + (IF ended THEN 1 ELSE 0)

\* C27: a request to /api/chat, /api/chat/stream or /api/sketch is answered
\* once: never twice, and a handler that has finished has sent a body or
\* ended the response; nothing follows the answer.
C27_AnsweredExactlyOnce ==
    (ToSketch \/ ep \in {Chat, ChatStream}) =>
        /\ Responses <= 1
        /\ pc = "done" <=> Responses = 1
        /\ pc = "done" => ~ENABLED ApiNext

C27_Witness ==
    /\ ep = ChatStream
    /\ pc = "done"
    /\ upstream = "failed"
    /\ written = <<"Hal", "lo">>
    /\ Responses = 1
    /\ ended

(***************************************************************************)
(* Room identity                                                           *)
(***************************************************************************)
\* the sid a connection supplied: auth before query, trimmed
SuppliedSid(c) == Trim(Or(handshake[c].authSid, handshake[c].querySid))

\* C28: two connections are in the same room if and only if the sids they
\* supplied are equal after trimming and not empty, whatever their roles
\* and wherever the sid came from.
C28_RoomIsTrimmedSid ==
    \A a, b \in Conns :
        (a # b /\ Joined(a) /\ Joined(b)) =>
            (RoomsOf(a) = RoomsOf(b)
                <=> (SuppliedSid(a) = SuppliedSid(b) /\ SuppliedSid(a) # <<>>))

(***************************************************************************)
(* Properties of the /video namespace                                      *)
(***************************************************************************)
\* the frames that the session of connection v has received
FramesOf(v) ==
    { k \in DOMAIN issued : issued[k].name[2] = sessionId[v] }

\* C29: no two video_frame events produce the same file name, in one
\* connection or in two; the counter of a connection is the number of the
\* frames it has received, so every saved file still holds the data of the
\* one write that produced its name, whatever the order of completion.
C29_FileNamesAreUnique ==
    /\ \A k, m \in DOMAIN issued : k # m => issued[k].name # issued[m].name
    /\ \A v \in VideoConns :
          vstatus[v] # "unjoined" => frameCount[v] = Cardinality(FramesOf(v))
    /\ \A k \in DOMAIN issued : outcome[k] = "saved" => issued[k] \in files

C29_Witness ==
    /\ Len(issued) = 3
    /\ issued[1].name[2] = issued[2].name[2]
    /\ issued[1].name[4] = issued[2].name[4]
    /\ issued[3].name[2] # issued[1].name[2]
    /\ issued[3].name[4] = issued[1].name[4]
    /\ outcome = <<"saved", "saved", "saved">>
    /\ Cardinality(files) = 3

(***************************************************************************)
(* Properties of the folders in the bucket                                 *)
(***************************************************************************)
\* the request is the creation or the deletion of a folder
ToFolder == ep \in {CreateFolder, DeleteFolder}

\* the folder name that the request carries
GivenName == IF ep = PresignUpload THEN req.folder ELSE req.name

\* the request was answered with 400 'invalid folder name' and nothing else
\* happened
NameRejected ==
    /\ pc = "done"
    /\ res = <<BadRequest("invalid folder name")>>
    /\ calls = <<>>

\* C21 as stated: a folder name given to create, delete or presign that
\* does not match the pattern after trimming and lower-casing is answered
\* with 400 'invalid folder name'.
C21_InvalidNameIs400 ==
    (/\ Requested
     /\ ToFolder \/ (ep = PresignUpload /\ Truthy(req.contentType)
                        /\ req.folder # Undefined)
     /\ ~FolderRegex(FolderOf(GivenName)))
        => NameRejected

\* C21, amended: create and delete answer 400 'invalid folder name' exactly
\* when String(name || '') trimmed and lower-cased does not match the
\* pattern; presign does so exactly when contentType is given, the bucket is
\* configured and the folder is a non-empty string that trimmed and
\* lower-cased does not match.  A rejected request makes no call and leaves
\* the bucket as it is.
C21_FolderValidation ==
    [][ /\ (ToFolder' /\ Requested') =>
              (NameRejected' <=> ~FolderRegex(FolderOf(req'.name)))
        /\ (ep' = PresignUpload /\ Requested') =>
              (NameRejected' <=>
                 /\ Truthy(req'.contentType)
                 /\ bucket'
                 /\ Truthy(req'.folder)
                 /\ req'.folder.t = "string"
                 /\ ~FolderRegex(Lower(Trim(req'.folder.s))))
        /\ NameRejected' => s3' = s3 ]_vars

C21_Witness ==
    /\ ep = PresignUpload
    /\ bucket
    /\ req.folder = Str(twoWords)
    /\ NameRejected
    /\ s3 # EmptyBucket

\* the folder that the request names
Folder == FolderOf(req.name)

\* every call of the request so far has returned
AllReturned == \A n \in DOMAIN calls : ~calls[n].threw

\* C22: /api/folders/delete deletes the metadata file of the folder only
\* after the listing and every batch delete have succeeded: when the listing
\* or a batch delete fails the response is 500 and the metadata file is
\* still there, and { ok: true } is sent only after the delete of the
\* metadata file was issued.
C22_MetadataIsDeletedLast ==
    [][ (ep = DeleteFolder /\ pc # "done") =>
          /\ (MetaKey(Folder) \in s3.objects /\ MetaKey(Folder) \notin s3'.objects)
                => (pc = "deleteMeta" /\ AllReturned /\ keys <= offset)
          /\ (pc \in {"listKeys", "deleteBatch"} /\ calls'[Len(calls')].threw)
                => /\ Len(res') = 1 /\ res'[1].status = 500
                   /\ MetaKey(Folder) \in s3.objects => MetaKey(Folder) \in s3'.objects
          /\ (res' # <<>> /\ res'[1].status = 200)
                => calls'[Len(calls')].call = "deleteObject" ]_vars

\* C23: /api/folders/delete collects the keys of every page of the listing
\* and stops listing when a page is not truncated; the batches it sends are
\* the consecutive slices of the collected keys, so that every key is in
\* exactly one batch, no batch is empty or holds more than 1000 keys, and
\* `deleted` is the number of collected keys.
C23_EveryKeyInOneBatch ==
    ep = DeleteFolder =>
        /\ \A n \in DOMAIN batches :
              /\ batches[n].from = (IF n = 1 THEN 0 ELSE batches[n - 1].to)
              /\ batches[n].from < batches[n].to
              /\ batches[n].to - batches[n].from <= BatchSize
              /\ batches[n].to <= keys
        /\ pc \in {"deleteBatch", "deleteMeta"} =>
              /\ listed = Contents(s3, Folder) \/ batches # <<>>
              /\ keys = Length(listed)
              /\ pages = Most(1, (keys + BatchSize - 1) \div BatchSize)
        /\ (pc = "deleteMeta" /\ keys > 0) => batches[Len(batches)].to = keys
        /\ (pc = "done" /\ AllReturned /\ Requested /\ calls # <<>>) =>
              /\ res = <<Ok([ok |-> TRUE, deleted |-> keys])>>
              /\ keys > 0 => batches[Len(batches)].to = keys
              /\ Len(batches) = Batches

C23_Witness ==
    /\ ep = DeleteFolder
    /\ pc = "done"
    /\ pages = 2
    /\ Len(batches) = 2
    /\ listed.special # <<>>
    /\ res = <<Ok([ok |-> TRUE, deleted |-> BatchSize + 2])>>

\* the objects of the bucket that belong to folder d: its metadata file,
\* its placeholder and the number of its uploaded files
ObjectsOf(st, d) ==
    [meta |-> MetaKey(d) \in st.objects,
     keep |-> KeepKey(d) \in st.objects,
     uploads |-> st.uploads[d]]

\* C24: /api/folders/delete of folder X removes nothing but the objects
\* under uploads/X/ and the metadata file of X: the metadata file and the
\* objects of every other folder stay as they are.
C24_OtherFoldersUntouched ==
    [][ ep = DeleteFolder =>
          \A d \in Dirs \ {Folder} : ObjectsOf(s3', d) = ObjectsOf(s3, d) ]_vars

\* the request was answered with status 200
Succeeded == pc = "done" /\ Len(res) = 1 /\ res[1].status = 200

\* C30: after a successful POST /api/folders the folder has its metadata
\* file and its placeholder; GET /api/folders lists every folder that has a
\* metadata file, with count 0 when it holds no uploaded file; GET
\* /api/uploads never returns a placeholder; after a successful
\* /api/folders/delete the folder has no metadata file and no object under
\* its prefix; and a creation that fails at the placeholder is answered 500
\* and leaves the metadata file, so that the folder is listed.
C30_FolderRoundTrip ==
    /\ (ep = CreateFolder /\ Succeeded) =>
          {MetaKey(Folder), KeepKey(Folder)} \subseteq s3.objects
    /\ (ep = ListFolders /\ Succeeded) =>
          \A d \in Dirs :
             (MetaKey(d) \in s3.objects /\ s3.uploads[d] = 0) =>
                \E n \in DOMAIN res[1].body.folders :
                   /\ res[1].body.folders[n].name = d
                   /\ res[1].body.folders[n].count = 0
    /\ (ep = ListUploads /\ Succeeded) =>
          \A k \in Range(res[1].body.items.special) : k.file # <<".keep">>
    /\ (ep = DeleteFolder /\ Succeeded) =>
          /\ MetaKey(Folder) \notin s3.objects
          /\ Contents(s3, Folder) = NoContents
    /\ (ep = CreateFolder /\ pc = "done" /\ Len(calls) = 2 /\ LastThrew) =>
          /\ MetaKey(Folder) \in s3.objects
          /\ Len(res) = 1 /\ res[1].status = 500

====
